---- MODULE Spec2Model ----
(***************************************************************************)
(* schema-form: the default-field inference (Element / defaults rules),    *)
(* the merge of a schema with an override list (Form.merge and             *)
(* SchemaForm.merge) and the validation step (Form.validate and            *)
(* SchemaForm.validate), modelled from the JavaScript sources.             *)
(***************************************************************************)
EXTENDS Integers, Sequences, FiniteSets, TLC

VARIABLES
    schema,       \* the caller's schema object (mutated by the Form schema setter)
    definition,   \* the caller's override list (entries mutated by SchemaForm.merge)
    op,           \* the operation that ran last
    argSchema,    \* the schema as it was when the last operation was called
    argDefinition,\* the override list as it was when the last operation was called
    merged,       \* outcome of the last merge: thrown error or field list
    formErrors,   \* Form._errors
    isSubmitted,  \* Form._isSubmitted
    values,       \* Form._values: the value map handed to the validator
    sfErrors,     \* SchemaForm._errors
    sfValues,     \* the value map SchemaForm.validate handed to the validator
    argData,      \* the data passed to the last validate call
    found,        \* the violations the validator reported in the last validate call
    ret,          \* return value of the last validate call
    rendered      \* the fragments the last generate call emitted

vars == <<schema, definition, op, argSchema, argDefinition, merged,
          formErrors, isSubmitted, values, sfErrors, sfValues, argData, found, ret,
          rendered>>

\* ------------------------------------------------------------------ bounds
MaxProps == 2
MaxDefLen == 3
MaxData == 2

\* ------------------------------------------------------- JavaScript values
\* One uniform shape for every JavaScript value the model handles:
\* k is the typeof-like kind, n a number or boolean payload, s a string
\* payload, p the elements of an array (path segments, enum members).
Undef == [k |-> "undefined", n |-> 0, s |-> "", p |-> <<>>]
Str(x) == [k |-> "string", n |-> 0, s |-> x, p |-> <<>>]
Num(x) == [k |-> "number", n |-> x, s |-> "", p |-> <<>>]
Bool(b) == [k |-> "boolean", n |-> IF b THEN 1 ELSE 0, s |-> "", p |-> <<>>]
Arr(segs) == [k |-> "array", n |-> 0, s |-> "", p |-> segs]
NaN == [k |-> "NaN", n |-> 0, s |-> "", p |-> <<>>]
True == Bool(TRUE)
False == Bool(FALSE)

\* ToBoolean
Truthy(v) ==
    CASE v.k = "undefined" -> FALSE
      [] v.k = "NaN" -> FALSE
      [] v.k = "string" -> v.s # ""
      [] v.k = "number" -> v.n # 0
      [] v.k = "boolean" -> v.n = 1
      [] OTHER -> TRUE

\* a || b
JsOr(a, b) == IF Truthy(a) THEN a ELSE b

\* a + b and a - b on numbers; undefined operands give NaN
JsAdd(a, b) == IF a.k = "number" /\ b.k = "number" THEN Num(a.n + b.n) ELSE NaN
JsSub(a, b) == IF a.k = "number" /\ b.k = "number" THEN Num(a.n - b.n) ELSE NaN

\* Objects are functions from the names of their own properties to values.
EmptyObj == [a \in {} |-> Undef]
Get(o, a) == IF a \in DOMAIN o THEN o[a] ELSE Undef
Put(o, a, v) == [x \in (DOMAIN o) \cup {a} |-> IF x = a THEN v ELSE o[x]]

\* Array.prototype.indexOf on a sequence, 0 when absent (indices are 1-based here)
RECURSIVE IndexFrom(_, _, _)
IndexFrom(seq, x, i) ==
    IF i > Len(seq) THEN 0
    ELSE IF seq[i] = x THEN i
    ELSE IndexFrom(seq, x, i + 1)
\* IndexOf that finds the last occurrence instead of the first
IndexOf_last(seq, x) ==
    IF \E i \in DOMAIN seq : seq[i] = x
    THEN CHOOSE i \in DOMAIN seq : seq[i] = x /\ \A j \in DOMAIN seq : seq[j] = x => j <= i
    ELSE 0

IndexOf(seq, x) == IndexFrom(seq, x, 1)

\* ------------------------------------------------------------ schema types
\* schema.type is a type name, an array of type names, or missing.
TypeName(t) == [arr |-> FALSE, names |-> <<t>>]
TypeArray(ts) == [arr |-> TRUE, names |-> ts]
TypeMissing == [arr |-> FALSE, names |-> <<>>]

RECURSIVE JoinComma(_)
JoinComma(ts) ==
    IF Len(ts) = 0 THEN ""
    ELSE IF Len(ts) = 1 THEN ts[1]
    ELSE ts[1] \o "," \o JoinComma(Tail(ts))

\* String(schema.type), as template literals and property lookups coerce it
TypeToString(t) ==
    IF t = TypeMissing THEN "undefined" ELSE JoinComma(t.names)

Utils_stripNullType(type) ==
    IF type.arr /\ Len(type.names) = 2
    THEN IF type.names[1] = "null" THEN TypeName(type.names[2])
         ELSE IF type.names[2] = "null" THEN TypeName(type.names[1])
         ELSE type
    ELSE type

\* ------------------------------------------------------------ schema nodes
\* A property's schema node. Every constraint is a JavaScript value, Undef
\* when the schema does not give it.
SchemaNode(type) ==
    [type |-> type, enum |-> Undef, title |-> Undef, description |-> Undef,
     maximum |-> Undef, exclusiveMaximum |-> Undef,
     minimum |-> Undef, exclusiveMinimum |-> Undef,
     maxLength |-> Undef, minLength |-> Undef,
     readonly |-> Undef, readOnly |-> Undef, required |-> Undef]

\* schema.required: an array of names, or missing
RequiredList(names) == [present |-> TRUE, list |-> names]
RequiredMissing == [present |-> FALSE, list |-> <<>>]

\* --------------------------------------------------------- override entries
\* An entry of the override list is a bare string or an object.
Bare(s) == [str |-> TRUE, s |-> s, obj |-> EmptyObj]
Obj(o) == [str |-> FALSE, s |-> "", obj |-> o]
Star == Bare("*")

\* The definition argument: an array, or no array at all.
DefArray(list) == [kind |-> "array", list |-> list]
DefUndefined == [kind |-> "undefined", list |-> <<>>]
DefNull == [kind |-> "null", list |-> <<>>]

\* ------------------------------------------------------------ call outcomes
\* message is the text of a thrown error, named the value interpolated into it
Returned(list) == [threw |-> "none", message |-> "", named |-> "", list |-> list]
Threw(kind, message, named) ==
    [threw |-> kind, message |-> message, named |-> named, list |-> <<>>]

\* A rule's result: a descriptor, or undefined
Some(el) == [some |-> TRUE, el |-> el]
None == [some |-> FALSE, el |-> EmptyObj]

\* ------------------------------------------------------ Element (element.js)
ElementFields ==
    {"description", "key", "maximum", "maxLength", "minimum", "minLength",
     "readonly", "required", "title"}

Element_constructor(data) ==
    [a \in ElementFields |->
        IF a \in {"readonly", "required"} THEN JsOr(Get(data, a), False)
        ELSE Get(data, a)]

\* (x === true | y === true) ? true : false
EitherIsTrue(x, y) == Bool(x = True \/ y = True)

Element_toElement(name, node, options) ==
    LET element ==
            [a \in ElementFields |->
                CASE a = "description" -> JsOr(node.description, Undef)
                  [] a = "key" -> Str(name)
                  [] a = "maximum" ->
                        JsOr(JsSub(node.maximum,
                                   IF Truthy(node.exclusiveMaximum) THEN Num(1) ELSE Num(0)),
                             Undef)
                  [] a = "maxLength" -> JsOr(node.maxLength, Undef)
                  [] a = "minimum" ->
                        JsOr(JsAdd(node.minimum,
                                   IF Truthy(node.exclusiveMinimum) THEN Num(1) ELSE Num(0)),
                             Undef)
                  [] a = "minLength" -> JsOr(node.minLength, Undef)
                  [] a = "readonly" -> EitherIsTrue(node.readonly, node.readOnly)
                  [] a = "required" -> EitherIsTrue(options.required, node.required)
                  [] a = "title" -> JsOr(node.title, Str(name))]
    IN  Element_constructor(element)

Element_text(name, node, options) ==
    IF node.type = TypeName("string") /\ ~Truthy(node.enum)
    THEN Some(Put(Element_toElement(name, node, options), "type", Str("text")))
    ELSE None

Element_select(name, node, options) ==
    IF node.type = TypeName("string") /\ Truthy(node.enum)
    THEN Some(Put(Element_toElement(name, node, options), "type", Str("select")))
    ELSE None

\* Element_defaults without its free-text rule
Element_defaults_selectOnly(rule) ==
    IF TypeToString(rule) = "string" THEN <<"select">> ELSE <<>>

\* rules[rule]: the property lookup coerces the type to a string
Element_defaults(rule) ==
    IF TypeToString(rule) = "string" THEN <<"select", "text">> ELSE <<>>

ElementRule(r, name, node, options) ==
    IF r = "select" THEN Element_select(name, node, options)
    ELSE Element_text(name, node, options)

\* do { element = rules[i](...); i++ } while (element === undefined && i < rules.length)
RECURSIVE ElementRuleLoop(_, _, _, _, _)
ElementRuleLoop(rules, i, name, node, options) ==
    IF ~ElementRule(rules[i], name, node, options).some /\ i + 1 <= Len(rules)
    THEN ElementRuleLoop(rules, i + 1, name, node, options)
    ELSE ElementRule(rules[i], name, node, options)

Element_byElementRule(name, node, options) ==
    IF Len(Element_defaults(node.type)) > 0
    THEN ElementRuleLoop(Element_defaults(node.type), 1, name, node, options)
    ELSE None

\* --------------------------------------------------------- Form (element.js)
\* Form_requiredOption that looks at the property's own flag only
Form_requiredOption_ownFlagOnly(sch, key, node) == node.required

\* value.required || (schema.required && schema.required.indexOf(key) !== -1)
Form_requiredOption(sch, key, node) ==
    JsOr(node.required,
         IF sch.required.present THEN Bool(IndexOf(sch.required.list, key) # 0)
         ELSE Undef)

\* if (element) { result.push(element); }
PushIfSome(result, element) == IF element.some THEN Append(result, element.el) ELSE result

\* The reduce over schema.properties: the claimed elements in iteration order
RECURSIVE Form_defaultFormReduce(_, _, _)
Form_defaultFormReduce(sch, i, result) ==
    IF i > Len(sch.properties) THEN result
    ELSE Form_defaultFormReduce(sch, i + 1,
            PushIfSome(result,
                Element_byElementRule(sch.properties[i].name, sch.properties[i].node,
                    [required |-> Form_requiredOption(sch, sch.properties[i].name,
                                                      sch.properties[i].node)])))

\* The root-type test of Form.defaultForm
Form_rootIsObject(sch) == sch.type = TypeName("object")

\* Form.defaultForm: {form, lookup}, or the SyntaxError it throws.
\* lookup[key] and the entry of form with that key are one and the same object.
Form_defaultFormResult(form) ==
    [threw |-> "none", message |-> "", named |-> "", form |-> form,
     lookup |-> [k \in {form[i].key.s : i \in DOMAIN form} |->
                    form[CHOOSE i \in DOMAIN form : form[i].key.s = k]]]

Form_defaultForm(sch) ==
    IF Form_rootIsObject(sch)
    THEN Form_defaultFormResult(Form_defaultFormReduce(sch, 1, <<>>))
    ELSE [threw |-> "SyntaxError",
          message |-> "SchemaForm error: Only type \"object\" is allow at root level: ",
          named |-> TypeToString(sch.type),
          form |-> <<>>, lookup |-> EmptyObj]

\* The property name a value is coerced to when it indexes an object
ToPropertyKey(v) ==
    CASE v.k = "string" -> v.s
      [] v.k = "array" -> JoinComma(v.p)
      [] v.k = "number" -> ToString(v.n)
      [] v.k = "boolean" -> IF v.n = 1 THEN "true" ELSE "false"
      [] OTHER -> v.k

\* _.each(tmp, (value, key) => { obj[key] = value; })
AssignAll(obj, tmp) ==
    [a \in (DOMAIN obj) \cup (DOMAIN tmp) |-> IF a \in DOMAIN tmp THEN tmp[a] ELSE obj[a]]

\* An item of the expanded list: an element of the default form (a reference
\* to the object stored in lookup under its key) or an entry of the override list.
FormItem(el) == [ref |-> TRUE, key |-> el.key.s, entry |-> Star]
EntryItem(e) == [ref |-> FALSE, key |-> "", entry |-> e]

\* A cell of the mapped list: the lookup object of a key, or an object of its own
SharedCell(k) == [shared |-> TRUE, key |-> k, obj |-> EmptyObj]
OwnCell(o) == [shared |-> FALSE, key |-> "", obj |-> o]

\* SpliceAt with the default form appended at the end instead of put at idx
SpliceAt_blockLast(list, idx, block) ==
    SubSeq(list, 1, idx - 1) \o SubSeq(list, idx + 1, Len(list)) \o block

\* definition.slice(0, idx).concat(form).concat(definition.slice(idx + 1)); idx is 1-based
SpliceAt(list, idx, block) ==
    SubSeq(list, 1, idx - 1) \o block \o SubSeq(list, idx + 1, Len(list))

\* Expand that adds the default form also when the list has no "*"
Expand_defaultsWithoutMarker(list, idx, block) ==
    IF idx >= 1
    THEN SubSeq(list, 1, idx - 1) \o block \o SubSeq(list, idx + 1, Len(list))
    ELSE list \o block

\* if (idx >= 0) { definition = <the splice> }; idx is 0 here when "*" is absent
Expand(list, idx, block) == IF idx >= 1 THEN SpliceAt(list, idx, block) ELSE list

\* Form_mergeTarget that turns an unmatched entry into an Element
Form_mergeTarget_wrapsElement(lookup, obj) ==
    IF Truthy(Get(obj, "key")) /\ ToPropertyKey(Get(obj, "key")) \in DOMAIN lookup
    THEN SharedCell(ToPropertyKey(Get(obj, "key")))
    ELSE OwnCell(Element_constructor(obj))

\* Which object the map callback returns for an override entry, given the
\* lookup objects as they are when the entry is reached.
Form_mergeTarget(lookup, obj) ==
    IF Truthy(Get(obj, "key")) /\ ToPropertyKey(Get(obj, "key")) \in DOMAIN lookup
    THEN SharedCell(ToPropertyKey(Get(obj, "key")))
    ELSE OwnCell(obj)

\* The map callback of Form.merge over the expanded list. lookup holds the
\* current contents of the lookup objects, which the callback writes to.
\* if (_.isString(obj)) { obj = { key: obj }; }
EntryObject(e) == IF e.str THEN [a \in {"key"} |-> Str(e.s)] ELSE e.obj

\* The lookup objects after the callback ran on obj, which resolved to cell
Form_mergeWrite(lookup, obj, cell) ==
    IF cell.shared
    THEN [lookup EXCEPT ![cell.key] = AssignAll(lookup[cell.key], obj)]
    ELSE lookup

RECURSIVE Form_mergeMap(_, _, _, _)
Form_mergeMap(items, i, lookup, cells) ==
    IF i > Len(items) THEN [lookup |-> lookup, cells |-> cells]
    ELSE IF items[i].ref
    THEN \* an element of the default form: it is lookup[obj.key] itself
         Form_mergeMap(items, i + 1, lookup, Append(cells, SharedCell(items[i].key)))
    ELSE Form_mergeMap(items, i + 1,
            Form_mergeWrite(lookup, EntryObject(items[i].entry),
                            Form_mergeTarget(lookup, EntryObject(items[i].entry))),
            Append(cells, Form_mergeTarget(lookup, EntryObject(items[i].entry))))

\* The returned array: every cell with the final contents of its object
Form_mergeResult(done) ==
    Returned([i \in DOMAIN done.cells |->
                IF done.cells[i].shared THEN done.lookup[done.cells[i].key]
                ELSE done.cells[i].obj])

Form_mergeExpanded(df, list) ==
    Expand([i \in DOMAIN list |-> EntryItem(list[i])],
           IndexOf(list, Star),
           [i \in DOMAIN df.form |-> FormItem(df.form[i])])

Form_mergeWith(df, list) ==
    IF df.threw # "none" THEN Threw(df.threw, df.message, df.named)
    ELSE Form_mergeResult(Form_mergeMap(Form_mergeExpanded(df, list), 1, df.lookup, <<>>))

\* Form.merge (element.js): the merged list, or the error defaultForm throws
Form_merge(sch, def) ==
    Form_mergeWith(Form_defaultForm(sch),
                   IF def.kind # "array" THEN <<Star>> ELSE def.list)

\* The schema setter: schema.required = _.reduce(schema.properties, fn, schema.required).
\* With no root required array the accumulator is undefined and the first
\* property carrying a truthy required flag makes result.indexOf throw.
RECURSIVE Form_schemaReduce(_, _, _)
Form_schemaReduce(props, i, result) ==
    IF i > Len(props) THEN [threw |-> "none", required |-> result]
    ELSE IF Truthy(props[i].node.required)
    THEN IF ~result.present THEN [threw |-> "TypeError", required |-> result]
         ELSE Form_schemaReduce(props, i + 1,
                IF IndexOf(result.list, props[i].name) = 0
                THEN RequiredList(Append(result.list, props[i].name))
                ELSE result)
    ELSE Form_schemaReduce(props, i + 1, result)

\* ------------------------------------------------- Utils.stdFormObject
\* Called with opts.global = {}: no formDefaults, titles not suppressed.
Utils_stdFormObject(name, node, opts) ==
    LET present ==
            {"title", "$pristine", "$valid"}
            \cup (IF Truthy(node.description) THEN {"description"} ELSE {})
            \cup (IF opts.required = True \/ node.required = True THEN {"required"} ELSE {})
            \cup (IF Truthy(node.maxLength) THEN {"maxlength"} ELSE {})
            \cup (IF Truthy(node.minLength) THEN {"minlength"} ELSE {})
            \cup (IF Truthy(node.readOnly) \/ Truthy(node.readonly) THEN {"readonly"} ELSE {})
            \cup (IF Truthy(node.minimum) THEN {"minimum"} ELSE {})
            \cup (IF Truthy(node.maximum) THEN {"maximum"} ELSE {})
    IN  [a \in present |->
            CASE a = "title" -> JsOr(node.title, Str(name))
              [] a = "description" -> node.description
              [] a = "required" -> True
              [] a = "maxlength" -> node.maxLength
              [] a = "minlength" -> node.minLength
              [] a = "readonly" -> True
              [] a = "minimum" ->
                    JsAdd(node.minimum,
                          IF Truthy(node.exclusiveMinimum) THEN Num(1) ELSE Num(0))
              [] a = "maximum" ->
                    JsSub(node.maximum,
                          IF Truthy(node.exclusiveMaximum) THEN Num(1) ELSE Num(0))
              [] a = "$pristine" -> True
              [] a = "$valid" -> False]

\* ------------------------------------------------------------- objectpath
\* objectpath.parse and objectpath.stringify on keys without dots, brackets
\* or quotes: a key is one path segment, the empty key is the empty path.
Parse(s) == IF s = "" THEN <<>> ELSE <<s>>

RECURSIVE JoinDot(_)
JoinDot(segs) ==
    IF Len(segs) = 0 THEN ""
    ELSE IF Len(segs) = 1 THEN segs[1]
    ELSE segs[1] \o "." \o JoinDot(Tail(segs))

Stringify(v) == IF v.k = "array" THEN JoinDot(v.p) ELSE ToPropertyKey(v)

\* ------------------------------------------------- defaults/text, defaults/select
text(name, node, options) ==
    IF Utils_stripNullType(node.type) = TypeName("string") /\ ~Truthy(node.enum)
    THEN Some(Put(Put(Utils_stdFormObject(name, node, options),
                      "key", Arr(options.path)), "type", Str("text")))
    ELSE None

select(name, node, options) ==
    IF Utils_stripNullType(node.type) = TypeName("string") /\ Truthy(node.enum)
    THEN Some(Put(Put(Utils_stdFormObject(name, node, options),
                      "key", Arr(options.path)), "type", Str("select")))
    ELSE None

\* The rule table exported by ./defaults: per base type an ordered rule list
defaults(type) ==
    IF TypeToString(type) = "string" THEN <<"select", "text">> ELSE <<>>

DefaultsRule(r, name, node, options) ==
    IF r = "select" THEN select(name, node, options) ELSE text(name, node, options)

\* ------------------------------------------------ SchemaForm (schema-form.js)
RECURSIVE SchemaForm_rulesLoop(_, _, _, _, _)
SchemaForm_rulesLoop(rules, i, name, node, options) ==
    IF i > Len(rules) THEN None
    ELSE IF DefaultsRule(rules[i], name, node, options).some
    THEN DefaultsRule(rules[i], name, node, options)
    ELSE SchemaForm_rulesLoop(rules, i + 1, name, node, options)

SchemaForm_defaultFormDefinition(name, node, options) ==
    SchemaForm_rulesLoop(defaults(Utils_stripNullType(node.type)), 1, name, node, options)

\* schema.required && schema.required.indexOf(key) !== -1
SchemaForm_requiredOption(sch, key) ==
    IF sch.required.present THEN Bool(IndexOf(sch.required.list, key) # 0) ELSE Undef

RECURSIVE SchemaForm_defaultFormEach(_, _, _)
SchemaForm_defaultFormEach(sch, i, form) ==
    IF i > Len(sch.properties) THEN form
    ELSE SchemaForm_defaultFormEach(sch, i + 1,
            PushIfSome(form,
                SchemaForm_defaultFormDefinition(sch.properties[i].name,
                    sch.properties[i].node,
                    [path |-> <<sch.properties[i].name>>,
                     required |-> SchemaForm_requiredOption(sch, sch.properties[i].name)])))

\* The root-type test of SchemaForm.defaultForm
SchemaForm_rootIsObject(sch) == Utils_stripNullType(sch.type) = TypeName("object")

\* SchemaForm.defaultForm with ignore = {} and global = {}. Each rule stores
\* the descriptor it returns in lookup under the stringified path.
SchemaForm_defaultFormResult(form) ==
    [threw |-> "none", message |-> "", named |-> "", form |-> form,
     lookup |-> [k \in {Stringify(form[i].key) : i \in DOMAIN form} |->
                    form[CHOOSE i \in DOMAIN form : Stringify(form[i].key) = k]]]

SchemaForm_defaultForm(sch) ==
    IF SchemaForm_rootIsObject(sch)
    THEN SchemaForm_defaultFormResult(SchemaForm_defaultFormEach(sch, 1, <<>>))
    ELSE [threw |-> "SyntaxError",
          message |-> "SchemaForm error: Only type \"object\" is allowed at root level: ",
          named |-> TypeToString(sch.type),
          form |-> <<>>, lookup |-> EmptyObj]

\* if (obj[attr] === void 0) { obj[attr] = schemaDefaults[attr]; } for every attr
FillMissing(obj, schemaDefaults) ==
    [a \in (DOMAIN obj) \cup (DOMAIN schemaDefaults) |->
        IF a \in DOMAIN schemaDefaults /\ Get(obj, a) = Undef
        THEN schemaDefaults[a]
        ELSE obj[a]]

\* SchemaForm_parseKey without the isString test: a key that is a path
\* already is parsed again, which leaves the empty path
SchemaForm_parseKey_unguarded(obj) ==
    IF Truthy(Get(obj, "key"))
    THEN Put(obj, "key",
             IF obj["key"].k = "string" THEN Arr(Parse(obj["key"].s)) ELSE Arr(<<>>))
    ELSE obj

\* if (obj.key) { if (_.isString(obj.key)) { obj.key = objectpath.parse(obj.key); } }
SchemaForm_parseKey(obj) ==
    IF Truthy(Get(obj, "key")) /\ obj["key"].k = "string"
    THEN Put(obj, "key", Arr(Parse(obj["key"].s)))
    ELSE obj

\* The map callback of SchemaForm.merge on one override entry's object
SchemaForm_fillEntry(lookup, obj) ==
    IF Truthy(Get(obj, "key")) /\ Stringify(obj["key"]) \in DOMAIN lookup
    THEN FillMissing(obj, lookup[Stringify(obj["key"])])
    ELSE obj

SchemaForm_mergeEntry(lookup, obj0) ==
    SchemaForm_fillEntry(lookup, SchemaForm_parseKey(obj0))

\* SchemaForm.merge: the outcome, and the caller's list afterwards. An object
\* entry is changed in place; a bare string is replaced by a fresh object in
\* the output only; an element of the default form is returned as it is.
SchemaForm_mergeResult(df, list, done) ==
    [outcome |-> Returned(Expand(done, IndexOf(list, Star), df.form)),
     definition |->
        DefArray([i \in DOMAIN list |-> IF list[i].str THEN list[i] ELSE Obj(done[i])])]

SchemaForm_mergeWith(df, def) ==
    IF df.threw # "none"
    THEN [outcome |-> Threw(df.threw, df.message, df.named), definition |-> def]
    ELSE IF def.kind # "array"
    THEN [outcome |-> Threw("TypeError", "form.indexOf is not a function", ""),
          definition |-> def]
    ELSE SchemaForm_mergeResult(df, def.list,
            [i \in DOMAIN def.list |->
                SchemaForm_mergeEntry(df.lookup, EntryObject(def.list[i]))])

SchemaForm_merge(sch, def) == SchemaForm_mergeWith(SchemaForm_defaultForm(sch), def)

\* generate (attrs, schema, definition = ["*"], data = {}): the default parameter
SchemaForm_generateDefinition(def) ==
    IF def.kind = "undefined" THEN DefArray(<<Star>>) ELSE def

\* ------------------------------------------------------------------ generate
\* The output of generate, as the list of the fragments it concatenates. A
\* fragment is what the engine makes of one template and one descriptor.
Rendering(fragments) == [done |-> TRUE, fragments |-> fragments]
NotRendered == [done |-> FALSE, fragments |-> <<>>]

\* The templates loaded; every form has a "default" template
TemplateNames == {"default", "text", "select", "textarea"}

\* this._templates[form.type] || this._templates["default"]
TemplateFor(form) ==
    IF ToPropertyKey(Get(form, "type")) \in TemplateNames
    THEN ToPropertyKey(Get(form, "type")) ELSE "default"

Fragment(form) == [template |-> TemplateFor(form), form |-> form]

\* Form_generateInput without the test for a missing type
RECURSIVE Form_generateInput_rendersAll(_, _)
Form_generateInput_rendersAll(list, i) ==
    IF i > Len(list) THEN <<>>
    ELSE <<Fragment(list[i])>> \o Form_generateInput_rendersAll(list, i + 1)

\* Form.generate: this._merged.reduce((result, form) => { if (!form.type) { return
\* result; } ... result += this._engine(template)({form, formObj}) }, "")
RECURSIVE Form_generateInput(_, _)
Form_generateInput(list, i) ==
    IF i > Len(list) THEN <<>>
    ELSE (IF ~Truthy(Get(list[i], "type")) THEN <<>> ELSE <<Fragment(list[i])>>)
         \o Form_generateInput(list, i + 1)

\* SchemaForm.generate: the same reduce over the list SchemaForm.merge returned
RECURSIVE SchemaForm_generateInput(_, _)
SchemaForm_generateInput(list, i) ==
    IF i > Len(list) THEN <<>>
    ELSE (IF ~Truthy(Get(list[i], "type")) THEN <<>> ELSE <<Fragment(list[i])>>)
         \o SchemaForm_generateInput(list, i + 1)

\* generate throws what merge throws
SchemaForm_generate(outcome) ==
    IF outcome.threw # "none" THEN NotRendered
    ELSE Rendering(SchemaForm_generateInput(outcome.list, 1))

\* ------------------------------------------------------- tv4 (validator)
\* tv4.validateMultiple(data, schema) for a root object schema, with the
\* keywords type, enum, minimum/maximum (with exclusivity), minLength,
\* maxLength and required. All violations are collected, in tv4's order:
\* the missing required properties in the order of schema.required, then the
\* violations of the properties in the order of the data's keys.
Tv4Error(code, key, dataPath, message) ==
    [code |-> code, params |-> [key |-> key], dataPath |-> dataPath, message |-> message]

\* The JSON type names a value answers to
JsonTypes(v) ==
    CASE v.k = "string" -> {"string"}
      [] v.k = "number" -> {"number", "integer"}
      [] v.k = "boolean" -> {"boolean"}
      [] v.k = "array" -> {"array"}
      [] OTHER -> {"null"}

IfThen(cond, seq) == IF cond THEN seq ELSE <<>>

Tv4_validateValue(key, v, node) ==
    LET path == "/" \o key
        allowed == {node.type.names[i] : i \in DOMAIN node.type.names}
    IN  IfThen(node.type # TypeMissing /\ JsonTypes(v) \cap allowed = {},
               <<Tv4Error(0, Undef, path, "Invalid type")>>)
        \o IfThen(node.enum.k = "array" /\ v.k = "string"
                    /\ \A i \in DOMAIN node.enum.p : node.enum.p[i] # v.s,
               <<Tv4Error(1, Undef, path, "No enum match")>>)
        \o IfThen(v.k = "number" /\ node.minimum.k = "number"
                    /\ v.n < node.minimum.n,
               <<Tv4Error(101, Undef, path, "Value is less than minimum")>>)
        \o IfThen(v.k = "number" /\ node.minimum.k = "number"
                    /\ Truthy(node.exclusiveMinimum) /\ v.n = node.minimum.n,
               <<Tv4Error(102, Undef, path, "Value is equal to exclusive minimum")>>)
        \o IfThen(v.k = "number" /\ node.maximum.k = "number"
                    /\ v.n > node.maximum.n,
               <<Tv4Error(103, Undef, path, "Value is greater than maximum")>>)
        \o IfThen(v.k = "number" /\ node.maximum.k = "number"
                    /\ Truthy(node.exclusiveMaximum) /\ v.n = node.maximum.n,
               <<Tv4Error(104, Undef, path, "Value is equal to exclusive maximum")>>)
        \o IfThen(v.k = "string" /\ node.minLength.k = "number"
                    /\ Len(v.s) < node.minLength.n,
               <<Tv4Error(200, Undef, path, "String is too short")>>)
        \o IfThen(v.k = "string" /\ node.maxLength.k = "number"
                    /\ Len(v.s) > node.maxLength.n,
               <<Tv4Error(201, Undef, path, "String is too long")>>)

DataKeys(data) == {data[i].key : i \in DOMAIN data}

RECURSIVE Tv4_required(_, _, _)
Tv4_required(data, required, i) ==
    IF i > Len(required) THEN <<>>
    ELSE IfThen(required[i] \notin DataKeys(data),
                <<Tv4Error(302, Str(required[i]), "", "Missing required property")>>)
         \o Tv4_required(data, required, i + 1)

RECURSIVE Tv4_properties(_, _, _)
Tv4_properties(data, props, i) ==
    IF i > Len(data) THEN <<>>
    ELSE (IF \E j \in DOMAIN props : props[j].name = data[i].key
          THEN Tv4_validateValue(data[i].key, data[i].value,
                    props[CHOOSE j \in DOMAIN props : props[j].name = data[i].key].node)
          ELSE <<>>)
         \o Tv4_properties(data, props, i + 1)

Tv4_validateMultiple(data, sch) ==
    IfThen(sch.required.present, Tv4_required(data, sch.required.list, 1))
    \o Tv4_properties(data, sch.properties, 1)

\* ----------------------------------------------------------------- validate
\* _.isEmpty: "" and [] are empty, and so is every value that is no
\* collection (numbers, booleans, null, undefined)
IsEmpty(v) ==
    CASE v.k = "string" -> v.s = ""
      [] v.k = "array" -> Len(v.p) = 0
      [] OTHER -> TRUE

\* _.reduce(data, (result, value, key) => { if (_.isEmpty(value) === false) ... }, {})
RECURSIVE StripEmpty(_, _)
StripEmpty(data, i) ==
    IF i > Len(data) THEN <<>>
    ELSE IfThen(~IsEmpty(data[i].value), <<data[i]>>) \o StripEmpty(data, i + 1)

\* err.params.key ? err.params.key : err.dataPath.replace(/^\//, "")
Form_errorKey(err) ==
    IF Truthy(err.params.key) THEN err.params.key.s
    ELSE IF err.dataPath = "" THEN "" ELSE SubSeq(err.dataPath, 2, Len(err.dataPath))

Form_mapErrors(errs) ==
    [i \in DOMAIN errs |->
        [code |-> errs[i].code, key |-> Form_errorKey(errs[i]), message |-> errs[i].message]]

\* error.dataPath.slice(1)
SchemaForm_errorKey(err) ==
    IF err.dataPath = "" THEN "" ELSE SubSeq(err.dataPath, 2, Len(err.dataPath))

\* A grouping that assigns the violation to its key instead of pushing it, so
\* that a key keeps its last violation only
RECURSIVE SchemaForm_groupErrors_keepsLast(_, _, _)
SchemaForm_groupErrors_keepsLast(errs, i, result) ==
    IF i > Len(errs) THEN result
    ELSE LET key == SchemaForm_errorKey(errs[i])
         IN  SchemaForm_groupErrors_keepsLast(errs, i + 1,
                [k \in (DOMAIN result) \cup {key} |->
                    IF k = key THEN <<errs[i]>> ELSE result[k]])

\* validated.errors.reduce(...): the errors grouped by key, each group in order
RECURSIVE SchemaForm_groupErrors(_, _, _)
SchemaForm_groupErrors(errs, i, result) ==
    IF i > Len(errs) THEN result
    ELSE LET key == SchemaForm_errorKey(errs[i])
         IN  SchemaForm_groupErrors(errs, i + 1,
                [k \in (DOMAIN result) \cup {key} |->
                    IF k = key
                    THEN (IF k \in DOMAIN result THEN result[k] ELSE <<>>) \o <<errs[i]>>
                    ELSE result[k]])

NoErrors == [k \in {} |-> <<>>]

\* ------------------------------------------------------------------ inputs
NameNode ==
    [SchemaNode(TypeName("string")) EXCEPT !.title = Str("Name"), !.minLength = Num(5)]
EmailNode ==
    [SchemaNode(TypeName("string")) EXCEPT !.enum = Arr(<<"a", "b">>), !.required = True]
AgeNode == SchemaNode(TypeName("number"))
NickNode == SchemaNode(TypeArray(<<"null", "string">>))

PropDecls ==
    <<[name |-> "age", node |-> AgeNode],
      [name |-> "name", node |-> NameNode],
      [name |-> "email", node |-> EmailNode],
      [name |-> "nick", node |-> NickNode]>>

\* schema.properties: at most MaxProps of the declarations, in this order
PropLists ==
    {[i \in DOMAIN pick |-> PropDecls[pick[i]]] :
        pick \in {f \in UNION {[1..n -> DOMAIN PropDecls] : n \in 0..MaxProps} :
                    \A i, j \in DOMAIN f : i < j => f[i] < f[j]}}

\* Root types other than "object"
RootTypes ==
    {TypeArray(<<"null", "object">>), TypeArray(<<"object", "null">>),
     TypeName("string"), TypeMissing}

Schemas ==
    {[type |-> TypeName("object"), properties |-> ps, required |-> RequiredList(<<"name">>)] :
        ps \in PropLists}
    \cup
    {[type |-> TypeName("object"), properties |-> ps, required |-> RequiredMissing] :
        ps \in {<<[name |-> "email", node |-> EmailNode],
                  [name |-> "name", node |-> NameNode]>>}}
    \cup
    {[type |-> ty, properties |-> <<[name |-> "name", node |-> NameNode]>>,
      required |-> RequiredList(<<"name">>)] : ty \in RootTypes}

\* The entries that name a field, and the marker
Entries ==
    {Star,
     Bare("name"),
     Obj([a \in {"key", "type", "title"} |->
            CASE a = "key" -> Str("name") [] a = "type" -> Str("textarea")
              [] OTHER -> Str("")]),
     Obj([a \in {"key", "required", "minLength", "title"} |->
            CASE a = "key" -> Str("name") [] a = "required" -> False
              [] a = "minLength" -> Num(0) [] OTHER -> Str("Nom")])}

\* An entry without a key: the submit button, which closes a form
SubmitEntry ==
    Obj([a \in {"type", "title"} |-> IF a = "type" THEN Str("submit") ELSE Str("OK")])

\* Override lists of at most MaxDefLen entries, the button last when there is one
EntryLists ==
    UNION {[1..n -> Entries] : n \in 0..MaxDefLen}
    \cup {Append(l, SubmitEntry) : l \in UNION {[1..n -> Entries] : n \in 0..(MaxDefLen - 1)}}

Definitions ==
    {DefUndefined, DefNull} \cup {DefArray(l) : l \in EntryLists}

NoOutcome == Threw("not called", "", "")
NoData == <<>>

\* ------------------------------------------------------------- merge machine
validateVars == <<formErrors, isSubmitted, values, sfErrors, sfValues, argData, found, ret>>

Init ==
    /\ schema \in Schemas
    /\ definition \in Definitions
    /\ op = "none"
    /\ argSchema = schema
    /\ argDefinition = definition
    /\ merged = NoOutcome
    /\ formErrors = <<>>
    /\ isSubmitted = FALSE
    /\ values = NoData
    /\ sfErrors = NoErrors
    /\ sfValues = NoData
    /\ argData = NoData
    /\ found = <<>>
    /\ ret = FALSE
    /\ rendered = NotRendered

\* Form.merge(schema, definition), the static method
FormMerge ==
    /\ op' = "Form.merge"
    /\ argSchema' = schema
    /\ argDefinition' = definition
    /\ merged' = Form_merge(schema, definition)
    /\ rendered' = NotRendered
    /\ UNCHANGED <<schema, definition, validateVars>>

\* new Form(schema, definition, ...): merge, then the schema setter
Form_constructor(sch, m, r) ==
    IF m.threw # "none" THEN [merged |-> m, schema |-> sch]
    ELSE IF r.threw # "none"
    THEN [merged |-> Threw(r.threw, "Cannot read property indexOf of undefined", ""),
          schema |-> sch]
    ELSE [merged |-> m, schema |-> [sch EXCEPT !.required = r.required]]

NewFormResult(c) ==
    /\ merged' = c.merged
    /\ schema' = c.schema

NewForm ==
    /\ op' = "new Form"
    /\ argSchema' = schema
    /\ argDefinition' = definition
    /\ NewFormResult(Form_constructor(schema, Form_merge(schema, definition),
                        Form_schemaReduce(schema.properties, 1, schema.required)))
    /\ rendered' = NotRendered
    /\ UNCHANGED <<definition, validateVars>>

\* SchemaForm.generate(attrs, schema, definition): its call of SchemaForm.merge
\* and the rendering of the merged list
SchemaFormMergeResult(r) ==
    /\ merged' = r.outcome
    /\ rendered' = SchemaForm_generate(r.outcome)
    /\ definition' = IF definition.kind = "array" THEN r.definition ELSE definition

SchemaFormMerge ==
    /\ op' = "SchemaForm.merge"
    /\ argSchema' = schema
    /\ argDefinition' = definition
    /\ SchemaFormMergeResult(
            SchemaForm_merge(schema, SchemaForm_generateDefinition(definition)))
    /\ UNCHANGED <<schema, validateVars>>

\* form.generate(attrs) on a constructed Form: renders this._merged
FormGenerate ==
    /\ op \in {"new Form", "Form.generate"}
    /\ merged.threw = "none"
    /\ op' = "Form.generate"
    /\ rendered' = Rendering(Form_generateInput(merged.list, 1))
    /\ UNCHANGED <<schema, definition, argSchema, argDefinition, merged, validateVars>>

Next == FormMerge \/ NewForm \/ SchemaFormMerge \/ FormGenerate

Spec == Init /\ [][Next]_vars

\* ------------------------------------------------- vocabulary of the claims
MergeOps == {"Form.merge", "SchemaForm.merge"}
FormOps == {"Form.merge", "new Form"}

\* The resolver's rule for the class that ran: Form resolves through Element,
\* SchemaForm through the defaults rules (which strip a null member first).
HasDefault(o, node) ==
    IF o \in FormOps THEN node.type = TypeName("string")
    ELSE node.type \in {TypeName("string"), TypeArray(<<"null", "string">>),
                        TypeArray(<<"string", "null">>)}

\* The names of the declared properties with a default, in declaration order
RECURSIVE DefaultNames(_, _, _)
DefaultNames(o, props, i) ==
    IF i > Len(props) THEN <<>>
    ELSE (IF HasDefault(o, props[i].node) THEN <<props[i].name>> ELSE <<>>)
         \o DefaultNames(o, props, i + 1)

ExpectedNames == DefaultNames(op, argSchema.properties, 1)
ExpectedNameSet == {ExpectedNames[i] : i \in DOMAIN ExpectedNames}

\* The default descriptor of a key, as the class that ran builds it
DefaultOf(k) ==
    IF op \in FormOps THEN Form_defaultForm(argSchema).lookup[k]
    ELSE SchemaForm_defaultForm(argSchema).lookup[k]

\* The override list the merge worked on
GivenList ==
    IF argDefinition.kind = "array" THEN argDefinition.list ELSE <<Star>>

\* Position of the first "*" in the list, 0 when there is none
MarkerAt == IF \E i \in DOMAIN GivenList : GivenList[i] = Star
            THEN CHOOSE i \in DOMAIN GivenList :
                    GivenList[i] = Star /\ \A j \in 1..(i - 1) : GivenList[j] # Star
            ELSE 0

\* The entry as an object: a bare string k stands for {key: k}
EntryObj(e) == IF e.str THEN [a \in {"key"} |-> Str(e.s)] ELSE e.obj
HasKey(o) == "key" \in DOMAIN o
\* A key as text, whether it is written as a string or as a path
KeyText(o) == IF o["key"].k = "array" THEN JoinDot(o["key"].p) ELSE o["key"].s

\* The output position of the entry at position q of the list (q is not the marker)
OutPos(q) ==
    IF MarkerAt # 0 /\ q > MarkerAt THEN q - 1 + Len(ExpectedNames) ELSE q

\* The entries of the list apart from the expanded marker
EntryPositions == DOMAIN GivenList \ {MarkerAt}

\* The entry's key is the key of a default descriptor
Matches(e) == HasKey(EntryObj(e)) /\ KeyText(EntryObj(e)) \in ExpectedNameSet

\* The output descriptor stands at the place of entry e: it has e's key, or is
\* e itself when e has no key
ComesFrom(d, e) ==
    IF HasKey(EntryObj(e)) THEN HasKey(d) /\ KeyText(d) = KeyText(EntryObj(e))
    ELSE d = EntryObj(e)

\* ------------------------------------------------------------------ claims
\* C1: for a root schema of type object, a merge with no override list (any
\* non-array definition for Form.merge, the absent argument of
\* SchemaForm.generate) or with ["*"] returns one descriptor for each declared
\* property that has a default rule and none for any other property, in
\* declaration order.
C1_DefaultPathIsClaimedPropertiesInOrder ==
    (/\ op \in MergeOps
     /\ argSchema.type = TypeName("object")
     /\ \/ argDefinition = DefArray(<<Star>>)
        \/ argDefinition.kind = "undefined"
        \/ (op = "Form.merge" /\ argDefinition.kind # "array"))
    => /\ merged.threw = "none"
       /\ Len(merged.list) = Len(ExpectedNames)
       /\ \A i \in DOMAIN merged.list :
            HasKey(merged.list[i]) /\ KeyText(merged.list[i]) = ExpectedNames[i]

C1_Witness ==
    /\ op = "Form.merge"
    /\ argDefinition.kind # "array"
    /\ Len(argSchema.properties) = 2
    /\ argSchema.properties[1].name = "age"
    /\ merged.threw = "none"
    /\ Len(merged.list) = 1

\* C2: with "*" first occurring at position i of the override list and d
\* default descriptors, the output has len(list) - 1 + d descriptors: the
\* entries before the marker in their order, then the default descriptors in
\* declaration order, then the entries after the marker in their order.
C2_WildcardExpandsInPlace ==
    (op \in MergeOps /\ merged.threw = "none" /\ MarkerAt # 0)
    => /\ Len(merged.list) = Len(GivenList) - 1 + Len(ExpectedNames)
       /\ \A q \in 1..(MarkerAt - 1) : ComesFrom(merged.list[q], GivenList[q])
       /\ \A j \in DOMAIN ExpectedNames :
            /\ HasKey(merged.list[MarkerAt - 1 + j])
            /\ KeyText(merged.list[MarkerAt - 1 + j]) = ExpectedNames[j]
       /\ \A q \in (MarkerAt + 1)..Len(GivenList) :
            ComesFrom(merged.list[q - 1 + Len(ExpectedNames)], GivenList[q])

C2_Witness ==
    /\ op = "SchemaForm.merge"
    /\ merged.threw = "none"
    /\ Len(GivenList) = 3
    /\ MarkerAt = 2
    /\ HasKey(EntryObj(GivenList[1]))
    /\ ~HasKey(EntryObj(GivenList[3]))
    /\ Len(ExpectedNames) = 2
    /\ Len(merged.list) = 4

\* C3: an override entry whose key matches a default descriptor has, in the
\* output descriptor at its position, its own value for every attribute it
\* sets (false, 0 and "" included), not the schema-derived default.
C3_OverrideValuesWin ==
    (op \in MergeOps /\ merged.threw = "none")
    => \A q \in EntryPositions :
         Matches(GivenList[q]) =>
            LET obj == EntryObj(GivenList[q])
                d == merged.list[OutPos(q)]
            IN  /\ HasKey(d) /\ KeyText(d) = KeyText(obj)
                /\ \A a \in DOMAIN obj \ {"key"} : a \in DOMAIN d /\ d[a] = obj[a]

\* C4: an override entry whose key matches a default descriptor has, in the
\* output descriptor at its position, the default's value for every attribute
\* of the default descriptor that the entry does not set.
C4_DefaultsFillUnsetAttributes ==
    (op \in MergeOps /\ merged.threw = "none")
    => \A q \in EntryPositions :
         Matches(GivenList[q]) =>
            LET obj == EntryObj(GivenList[q])
                d == merged.list[OutPos(q)]
                dflt == DefaultOf(KeyText(obj))
            IN  \A a \in DOMAIN dflt \ DOMAIN obj : a \in DOMAIN d /\ d[a] = dflt[a]

\* C5: for an override list without "*" the output has one descriptor per
\* entry, in the list's order, and no property the list does not name.
C5_NoWildcardOnlyOverrides ==
    (op \in MergeOps /\ merged.threw = "none" /\ MarkerAt = 0)
    => /\ Len(merged.list) = Len(GivenList)
       /\ \A q \in DOMAIN GivenList : ComesFrom(merged.list[q], GivenList[q])
       /\ \A i \in DOMAIN merged.list :
            HasKey(merged.list[i]) =>
                \E q \in DOMAIN GivenList :
                    /\ HasKey(EntryObj(GivenList[q]))
                    /\ KeyText(EntryObj(GivenList[q])) = KeyText(merged.list[i])

C5_Witness ==
    /\ op = "Form.merge"
    /\ merged.threw = "none"
    /\ MarkerAt = 0
    /\ Len(GivenList) = 2
    /\ Matches(GivenList[1])
    /\ ~HasKey(EntryObj(GivenList[2]))
    /\ Len(ExpectedNames) = 2

\* C6: an override entry without a key, or whose key matches no default
\* descriptor, is in the output with exactly the attributes it was given (a
\* bare string k as a descriptor whose only attribute is the key k).
C6_UnmatchedEntriesPassThrough ==
    (op \in MergeOps /\ merged.threw = "none")
    => \A q \in EntryPositions :
         ~Matches(GivenList[q]) =>
            LET obj == EntryObj(GivenList[q])
                d == merged.list[OutPos(q)]
            IN  /\ DOMAIN d = DOMAIN obj
                /\ \A a \in DOMAIN obj \ {"key"} : d[a] = obj[a]
                /\ HasKey(obj) => KeyText(d) = KeyText(obj)

C6_Witness ==
    /\ op = "SchemaForm.merge"
    /\ merged.threw = "none"
    /\ Len(GivenList) = 3
    /\ MarkerAt = 1
    /\ Len(ExpectedNames) = 1
    /\ GivenList[2] = Bare("name")
    /\ ~Matches(GivenList[2])
    /\ ~HasKey(EntryObj(GivenList[3]))

\* C7: building the default form throws a configuration error naming the
\* offending type exactly when the root type, after stripping the null member
\* of a two-element nullable encoding, is not "object" (a missing type
\* included); for a root whose stripped type is "object" nothing is thrown
\* and a field list is returned.
C7_RootTypeErrorAfterNullStripping ==
    (op \in {"Form.merge", "SchemaForm.merge"} /\ argDefinition.kind = "array")
    => IF argSchema.type \in {TypeName("object"), TypeArray(<<"null", "object">>),
                              TypeArray(<<"object", "null">>)}
       THEN merged.threw = "none"
       ELSE merged.threw = "SyntaxError" /\ merged.named = TypeToString(argSchema.type)

\* ---------------------------------------------------------- validate machine
\* The fields of the form, in the order a browser submits them
DataKeyOrder == <<"name", "email", "age">>
DataValues ==
    {Str(""), Str("x"), Str("abcdef"), Num(5), Arr(<<>>), Arr(<<"x">>), Undef}

\* Submitted data: at most MaxData of the fields, in field order
DataInputs ==
    {d \in UNION {[1..n -> [key : {DataKeyOrder[i] : i \in DOMAIN DataKeyOrder},
                            value : DataValues]] : n \in 0..MaxData} :
        \A i, j \in DOMAIN d :
            i < j => IndexOf(DataKeyOrder, d[i].key) < IndexOf(DataKeyOrder, d[j].key)}

ValidateSchemas ==
    {[type |-> TypeName("object"),
      properties |-> <<[name |-> "name", node |-> NameNode],
                       [name |-> "email",
                        node |-> [EmailNode EXCEPT !.enum = Arr(<<"abcdef", "b">>),
                                                   !.minLength = Num(5)]],
                       [name |-> "age", node |-> AgeNode]>>,
      required |-> RequiredList(<<"name">>)]}

\* A Form built from the schema with no override list, or a SchemaForm that
\* is handed the schema on every call
InitValidate ==
    /\ \E s \in ValidateSchemas :
         \/ /\ op = "new Form"
            /\ schema = [s EXCEPT !.required =
                            Form_schemaReduce(s.properties, 1, s.required).required]
            /\ argSchema = s
            /\ merged = Form_merge(s, DefUndefined)
         \/ /\ op = "new SchemaForm"
            /\ schema = s
            /\ argSchema = s
            /\ merged = NoOutcome
    /\ definition = DefUndefined
    /\ argDefinition = DefUndefined
    /\ formErrors = <<>>
    /\ isSubmitted = FALSE
    /\ values = NoData
    /\ sfErrors = NoErrors
    /\ sfValues = NoData
    /\ argData = NoData
    /\ found = <<>>
    /\ ret = FALSE
    /\ rendered = NotRendered

mergeVars == <<schema, definition, argSchema, argDefinition, merged, rendered>>

\* Form.validate(data)
Form_validateStore(errors, stored) ==
    /\ found' = errors
    /\ formErrors' = stored
    /\ ret' = (Len(stored) = 0)

Form_validateErrors(errors) ==
    Form_validateStore(errors,
        IF errors # <<>> THEN Form_mapErrors(errors) ELSE formErrors)

Form_validateValues(stripped) ==
    /\ values' = stripped
    /\ Form_validateErrors(Tv4_validateMultiple(stripped, schema))

FormValidate(data) ==
    /\ op \in {"new Form", "Form.validate", "Form.errors"}
    /\ op' = "Form.validate"
    /\ argData' = data
    /\ isSubmitted' = TRUE
    /\ Form_validateValues(StripEmpty(data, 1))
    /\ UNCHANGED <<mergeVars, sfErrors, sfValues>>

\* SchemaForm.validate(data, schema)
SchemaForm_validateErrors(errors) ==
    /\ found' = errors
    /\ sfErrors' = IF errors # <<>> THEN SchemaForm_groupErrors(errors, 1, NoErrors)
                   ELSE sfErrors
    /\ ret' = (errors = <<>>)

SchemaForm_validateValues(stripped) ==
    /\ sfValues' = stripped
    /\ SchemaForm_validateErrors(Tv4_validateMultiple(stripped, schema))

SchemaFormValidate(data) ==
    /\ op \in {"new SchemaForm", "SchemaForm.validate"}
    /\ op' = "SchemaForm.validate"
    /\ argData' = data
    /\ SchemaForm_validateValues(StripEmpty(data, 1))
    /\ UNCHANGED <<mergeVars, formErrors, isSubmitted, values>>

\* set errors (errors): the caller assigns the stored errors
ErrorInputs ==
    {<<[code |-> 302, key |-> "name", message |-> "Missing required property"]>>}

FormSetErrors(errors) ==
    /\ op \in {"new Form", "Form.validate", "Form.errors"}
    /\ op' = "Form.errors"
    /\ formErrors' = errors
    /\ UNCHANGED <<mergeVars, isSubmitted, values, sfErrors, sfValues, argData, found, ret>>

\* this.errors.find(({ key }) => key === name)
Form_findError(name) ==
    IF \E i \in DOMAIN formErrors : formErrors[i].key = name
    THEN Some(formErrors[CHOOSE i \in DOMAIN formErrors :
                    /\ formErrors[i].key = name
                    /\ \A j \in 1..(i - 1) : formErrors[j].key # name])
    ELSE None

\* A getError that looks the error up whether or not the form was submitted
Form_getError_unguarded(name) == Form_findError(name)

\* getError (name): undefined unless the form is submitted
Form_getError(name) == IF isSubmitted THEN Form_findError(name) ELSE None

\* hasError (name): !!this.getError(name)
Form_hasError(name) == Form_getError(name) # None

NextValidate ==
    \/ \E data \in DataInputs : FormValidate(data) \/ SchemaFormValidate(data)
    \/ \E errors \in ErrorInputs : FormSetErrors(errors)

SpecValidate == InitValidate /\ [][NextValidate]_vars

\* The value map the last validate call handed to the validator
Handed == IF op = "Form.validate" THEN values ELSE sfValues
Validated == op \in {"Form.validate", "SchemaForm.validate"}

\* C8: validate returns true exactly when the data, after the empty values
\* are stripped, violates no constraint of the schema, whatever earlier
\* validate calls on the same instance returned.
C8_ValidIffNoViolation ==
    Validated => (ret <=> found = <<>>)

\* C9: after a validate call the stored errors are exactly the violations
\* this call found, none when the data was valid.
C9_StoredErrorsAreThisCallsViolations ==
    /\ op = "Form.validate" =>
        /\ Len(formErrors) = Len(found)
        /\ \A i \in DOMAIN found :
            /\ formErrors[i].code = found[i].code
            /\ formErrors[i].message = found[i].message
    /\ op = "SchemaForm.validate" =>
        /\ \A k \in DOMAIN sfErrors :
            \A i \in DOMAIN sfErrors[k] :
                \E j \in DOMAIN found : found[j] = sfErrors[k][i]
        /\ \A j \in DOMAIN found :
            \E k \in DOMAIN sfErrors :
                \E i \in DOMAIN sfErrors[k] : sfErrors[k][i] = found[j]

\* C10: the value map handed to the validator is the submitted data without
\* the keys whose value is "", an empty collection or absent; every other key
\* is kept with its value.
C10_OnlyEmptyValuesAreStripped ==
    Validated =>
        /\ \A i \in DOMAIN Handed : \E j \in DOMAIN argData : argData[j] = Handed[i]
        /\ \A j \in DOMAIN argData :
            (argData[j].value \notin {Str(""), Arr(<<>>), Undef})
            <=> (\E i \in DOMAIN Handed : Handed[i] = argData[j])

\* The stored violations recorded under key k by the class that ran
StoredUnder(k) ==
    IF op = "Form.validate"
    THEN SelectSeq(formErrors, LAMBDA e : e.key = k)
    ELSE IF k \in DOMAIN sfErrors THEN sfErrors[k] ELSE <<>>

\* The submitted value of field k, Undef when the data has no such field
Submitted(k) ==
    IF \E j \in DOMAIN argData : argData[j].key = k
    THEN argData[CHOOSE j \in DOMAIN argData : argData[j].key = k].value
    ELSE Undef

\* The schema node of the declared property k
NodeOf(k) ==
    schema.properties[CHOOSE j \in DOMAIN schema.properties :
                        schema.properties[j].name = k].node

\* C11: after validate, every required property that is missing from or empty
\* in the submitted data has exactly one stored violation under its name, with
\* the required-property code (302); a required property submitted with a
\* value that satisfies its constraints has no stored violation.
C11_RequiredViolationsKeyedByName ==
    Validated =>
        \A i \in DOMAIN schema.required.list :
            LET r == schema.required.list[i]
            IN  IF Submitted(r) \in {Undef, Str(""), Arr(<<>>)}
                THEN /\ Len(StoredUnder(r)) = 1
                     /\ StoredUnder(r)[1].code = 302
                ELSE Tv4_validateValue(r, Submitted(r), NodeOf(r)) = <<>>
                     => StoredUnder(r) = <<>>

\* ---------------------------------------------------------- resolver machine
\* The default form of a schema with one declared property, built by
\* Form.defaultForm (through the Element rules) or by SchemaForm.defaultForm
\* (through the defaults rules).
MaxBound == 1

ResolveTypes ==
    {TypeName("string"), TypeArray(<<"null", "string">>),
     TypeArray(<<"string", "null">>), TypeName("number")}

NumericBounds == {Undef} \cup {Num(n) : n \in (0 - MaxBound)..MaxBound}

ResolveNodes ==
    {[SchemaNode(ty) EXCEPT !.enum = en, !.minimum = lo, !.exclusiveMinimum = xlo,
                            !.maximum = hi, !.exclusiveMaximum = xhi, !.required = rq] :
        ty \in ResolveTypes, en \in {Undef, Arr(<<"a", "b">>)},
        lo \in NumericBounds, xlo \in {Undef, True},
        hi \in NumericBounds, xhi \in {Undef, True},
        rq \in {Undef, True, False}}

ResolveSchemas ==
    {[type |-> TypeName("object"), properties |-> <<[name |-> "field", node |-> nd]>>,
      required |-> rq] :
        nd \in ResolveNodes,
        rq \in {RequiredMissing, RequiredList(<<"field">>), RequiredList(<<"other">>)}}

InitResolve ==
    /\ schema \in ResolveSchemas
    /\ definition = DefUndefined
    /\ op = "none"
    /\ argSchema = schema
    /\ argDefinition = definition
    /\ merged = NoOutcome
    /\ formErrors = <<>>
    /\ isSubmitted = FALSE
    /\ values = NoData
    /\ sfErrors = NoErrors
    /\ sfValues = NoData
    /\ argData = NoData
    /\ found = <<>>
    /\ ret = FALSE
    /\ rendered = NotRendered

\* What a call of defaultForm hands back: the form, or the error thrown
DefaultFormOutcome(df) ==
    IF df.threw # "none" THEN Threw(df.threw, df.message, df.named)
    ELSE Returned(df.form)

\* Form.defaultForm(schema), the static method
FormDefaultForm ==
    /\ op' = "Form.defaultForm"
    /\ argSchema' = schema
    /\ merged' = DefaultFormOutcome(Form_defaultForm(schema))
    /\ UNCHANGED <<schema, definition, argDefinition, validateVars, rendered>>

\* SchemaForm.defaultForm(schema), the static method
SchemaFormDefaultForm ==
    /\ op' = "SchemaForm.defaultForm"
    /\ argSchema' = schema
    /\ merged' = DefaultFormOutcome(SchemaForm_defaultForm(schema))
    /\ UNCHANGED <<schema, definition, argDefinition, validateVars, rendered>>

NextResolve == FormDefaultForm \/ SchemaFormDefaultForm

SpecResolve == InitResolve /\ [][NextResolve]_vars

\* The one declared property of the schema the resolver was given
Resolved == op \in {"Form.defaultForm", "SchemaForm.defaultForm"}
FieldNode == argSchema.properties[1].node
FieldName == argSchema.properties[1].name
BaseType == Utils_stripNullType(FieldNode.type)

\* C12: a property of base type string (the type with the null member of a
\* nullable encoding stripped) resolves to exactly one descriptor, of type
\* "select" when the property has an enum and of type "text" when it has none.
C12_StringResolvesToSelectOrText ==
    (Resolved /\ BaseType = TypeName("string"))
    => /\ merged.threw = "none"
       /\ Len(merged.list) = 1
       /\ Get(merged.list[1], "type") =
            (IF FieldNode.enum # Undef THEN Str("select") ELSE Str("text"))

\* The descriptor the resolver produced for the declared property
Produced == Resolved /\ merged.threw = "none" /\ Len(merged.list) = 1
Descriptor == merged.list[1]

\* C13: the produced descriptor's minimum is m + 1 for an exclusive schema
\* minimum m and m otherwise, its maximum M - 1 for an exclusive schema maximum
\* M and M otherwise, for every integer bound (zero and negative bounds, and
\* bounds whose adjusted value is zero, included).
C13_ExclusiveBoundsMadeInclusive ==
    Produced =>
        /\ FieldNode.minimum.k = "number" =>
            Get(Descriptor, "minimum") =
                Num(FieldNode.minimum.n
                    + (IF FieldNode.exclusiveMinimum = True THEN 1 ELSE 0))
        /\ FieldNode.maximum.k = "number" =>
            Get(Descriptor, "maximum") =
                Num(FieldNode.maximum.n
                    - (IF FieldNode.exclusiveMaximum = True THEN 1 ELSE 0))

\* C14: the required attribute of a default descriptor built by
\* Form.defaultForm is true exactly when the property's name is in the root
\* schema's required array or the property itself carries required: true, and
\* false otherwise (a root schema without a required array included).
C14_RequiredFromRootListOrOwnFlag ==
    (op = "Form.defaultForm" /\ Produced)
    => Get(Descriptor, "required") =
        Bool(\/ \E i \in DOMAIN argSchema.required.list :
                    argSchema.required.list[i] = FieldName
             \/ FieldNode.required = True)

C14_Witness ==
    /\ op = "Form.defaultForm"
    /\ Produced
    /\ argSchema.required = RequiredList(<<"field">>)
    /\ FieldNode.required = False
    /\ Get(Descriptor, "required") = True

\* The names of the properties that carry required: true and are not in the
\* list given, in declaration order
RECURSIVE FlaggedNotIn(_, _, _)
FlaggedNotIn(props, listed, i) ==
    IF i > Len(props) THEN <<>>
    ELSE (IF props[i].node.required = True
             /\ \A j \in DOMAIN listed : listed[j] # props[i].name
          THEN <<props[i].name>> ELSE <<>>)
         \o FlaggedNotIn(props, listed, i + 1)

\* C15: after new Form(schema, ...) on an object schema the constructor has
\* not failed and the schema's required list is its original entries in their
\* order followed by each property carrying required: true that was not
\* listed, each once; a schema without a root required list counts as having
\* no original entries.
C15_RequiredListNormalised ==
    (op = "new Form" /\ argSchema.type = TypeName("object"))
    => /\ merged.threw = "none"
       /\ schema.required.list =
            argSchema.required.list
            \o FlaggedNotIn(argSchema.properties, argSchema.required.list, 1)

\* The schema with its property declared with type "string"
DeclaredString(sch) ==
    [sch EXCEPT !.properties[1].node.type = TypeName("string")]

\* C16: a property whose type is ["null","string"] or ["string","null"]
\* resolves to the same descriptor (same type tag, same attributes) as the
\* same property declared with type "string".
C16_NullableStringResolvesAsString ==
    (Resolved /\ FieldNode.type \in {TypeArray(<<"null", "string">>),
                                     TypeArray(<<"string", "null">>)})
    => merged =
        (IF op = "Form.defaultForm"
         THEN DefaultFormOutcome(Form_defaultForm(DeclaredString(argSchema)))
         ELSE DefaultFormOutcome(SchemaForm_defaultForm(DeclaredString(argSchema))))

\* The last operation rendered a merged list
Generated == op \in {"Form.generate", "SchemaForm.merge"} /\ merged.threw = "none"

HasType(d) == "type" \in DOMAIN d /\ d["type"] \notin {Undef, Str("")}

\* The descriptors of a list that have a type, in the list's order
TypedOnly(list) == SelectSeq(list, HasType)

\* C17: generate emits exactly one fragment for each merged descriptor that
\* has a type, in merged-list order, and nothing (no fragment, no error) for a
\* descriptor without a type; the output equals the output for the list with
\* the type-less descriptors removed.
C17_RenderSkipsTypelessDescriptors ==
    Generated =>
        /\ rendered.done
        /\ Len(rendered.fragments) = Len(TypedOnly(merged.list))
        /\ \A i \in DOMAIN rendered.fragments :
            rendered.fragments[i].form = TypedOnly(merged.list)[i]
        /\ rendered.fragments =
            (IF op = "Form.generate"
             THEN Form_generateInput(TypedOnly(merged.list), 1)
             ELSE SchemaForm_generateInput(TypedOnly(merged.list), 1))

C17_Witness ==
    /\ op = "Form.generate"
    /\ Len(merged.list) = 3
    /\ HasType(merged.list[1])
    /\ ~HasType(merged.list[2])
    /\ HasType(merged.list[3])
    /\ Len(rendered.fragments) = 2

\* C18: a merge called twice in a row with the same schema object and the same
\* override list object returns, the second time, a field list structurally
\* equal to the first (the same outcome also when the merge throws).
C18_MergeTwiceGivesEqualLists ==
    [][(op \in MergeOps /\ op' = op) => merged' = merged]_vars

\* The list SchemaForm.merge was given had been through SchemaForm.merge before:
\* an entry's key is a parsed path and its defaults are filled in
C18_Witness ==
    /\ op = "SchemaForm.merge"
    /\ merged.threw = "none"
    /\ argDefinition.kind = "array"
    /\ argDefinition = definition
    /\ \E i \in DOMAIN argDefinition.list :
        /\ ~argDefinition.list[i].str
        /\ Get(argDefinition.list[i].obj, "key").k = "array"
        /\ Get(argDefinition.list[i].obj, "$pristine") = True

\* C19: a merge leaves the caller's schema and every entry of the caller's
\* override list as they were when it was called (so that a later merge of the
\* same list, against any schema, starts from the entries as written).
C19_MergeLeavesArgumentsUnchanged ==
    op \in MergeOps => (schema = argSchema /\ definition = argDefinition)

\* C20: when a key occurs both in the wildcard-expanded block and in an
\* explicit override entry of the same list, the descriptor at the wildcard
\* position is the schema-derived default descriptor, with none of the
\* override's values.
C20_WildcardDescriptorKeepsDefaults ==
    (op \in MergeOps /\ merged.threw = "none" /\ MarkerAt # 0)
    => \A j \in DOMAIN ExpectedNames :
         (\E q \in EntryPositions :
            /\ HasKey(EntryObj(GivenList[q]))
            /\ KeyText(EntryObj(GivenList[q])) = ExpectedNames[j])
         => merged.list[MarkerAt - 1 + j] = DefaultOf(ExpectedNames[j])

\* The positions of the override list that hold "*" after its first occurrence
LaterMarkers == {q \in DOMAIN GivenList : q > MarkerAt /\ GivenList[q] = Star}

\* C21: when "*" occurs more than once in the override list, only the first
\* occurrence is replaced by the default field list (the block stands there,
\* once), and every later "*" comes out as the descriptor of a bare-string
\* entry that matches no default: its only attribute is the key "*".
C21_OnlyFirstWildcardExpands ==
    (op \in MergeOps /\ merged.threw = "none" /\ MarkerAt # 0 /\ LaterMarkers # {})
    => /\ Len(merged.list) = Len(GivenList) - 1 + Len(ExpectedNames)
       /\ \A j \in DOMAIN ExpectedNames :
            /\ HasKey(merged.list[MarkerAt - 1 + j])
            /\ KeyText(merged.list[MarkerAt - 1 + j]) = ExpectedNames[j]
       /\ \A q \in LaterMarkers :
            /\ DOMAIN merged.list[OutPos(q)] = {"key"}
            /\ KeyText(merged.list[OutPos(q)]) = "*"

C21_Witness ==
    /\ op = "Form.merge"
    /\ merged.threw = "none"
    /\ Len(GivenList) = 3
    /\ MarkerAt = 1
    /\ LaterMarkers = {3}
    /\ Len(ExpectedNames) = 2
    /\ Len(merged.list) = 4
    /\ KeyText(merged.list[4]) = "*"

\* The keys of the SchemaForm error map whose list holds the violation e
KeysHolding(e) ==
    {k \in DOMAIN sfErrors : \E i \in DOMAIN sfErrors[k] : sfErrors[k][i] = e}

\* The names of the declared properties
FieldNames == {schema.properties[j].name : j \in DOMAIN schema.properties}

\* C22: a validate call that found violations returns false (nothing is
\* thrown) and stores every violation the validator reported, each under
\* exactly one key, the violations of one key in the order the validator
\* reported them; a field with several violations keeps all of them.
C22_EveryViolationStoredInOrder ==
    (Validated /\ found # <<>>)
    => /\ ret = FALSE
       /\ op = "Form.validate" =>
            /\ Len(formErrors) = Len(found)
            /\ \A j \in DOMAIN found :
                 /\ formErrors[j].code = found[j].code
                 /\ formErrors[j].message = found[j].message
                 /\ formErrors[j].key \in FieldNames
       /\ op = "SchemaForm.validate" =>
            /\ \A j \in DOMAIN found : Cardinality(KeysHolding(found[j])) = 1
            /\ \A k \in DOMAIN sfErrors :
                 sfErrors[k] = SelectSeq(found, LAMBDA e : k \in KeysHolding(e))

\* {email: "x"}: the name is missing and the email violates two keywords
C22_Witness ==
    /\ op = "SchemaForm.validate"
    /\ Len(found) = 3
    /\ DOMAIN sfErrors = {"", "email"}
    /\ sfErrors[""] = <<found[1]>>
    /\ sfErrors["email"] = <<found[2], found[3]>>
    /\ found[2].code = 1
    /\ found[3].code = 200
    /\ ret = FALSE

\* C23: a Form's submitted flag is false at construction, stays as it is
\* under every operation that is no validate call and is true after every
\* validate call, whatever the call returned; while the flag is false,
\* getError returns nothing and hasError is false for every field name,
\* whatever errors the form holds.
C23_SubmittedFlagFollowsValidate ==
    /\ ~isSubmitted
    /\ [](~isSubmitted =>
            \A name \in FieldNames \cup {""} :
                Form_getError(name) = None /\ ~Form_hasError(name))
    /\ [][/\ op' = "Form.validate" => isSubmitted'
          /\ op' # "Form.validate" => isSubmitted' = isSubmitted]_vars

\* A first validate call on valid data: the call returned true and the flag
\* is set
C23_Witness ==
    /\ op = "Form.validate"
    /\ isSubmitted
    /\ found = <<>>
    /\ ret = TRUE
    /\ formErrors = <<>>

====
